---- MODULE Spec2Model ----
(***************************************************************************)
(* A model of unwebhook: main's hook loading loop (webhook.go), the HTTP   *)
(* boundary (hookHandler, SetupServer, RunServer) and the hook engine      *)
(* (CreateTemplates, Execute, processEvent, processCommand, runCommand).   *)
(*                                                                         *)
(* Strings are modelled as sequences of tokens: "refs/heads/main" is       *)
(* <<"refs/heads/", "main">>, "echo" is <<"echo">>, "" is <<>>.  Prefix    *)
(* tests, slicing and equality are then the sequence operations.           *)
(*                                                                         *)
(* Spec follows one request through loading, hookHandler, Execute and      *)
(* runCommand, step by step.  FairSpec is Spec with the scheduler's        *)
(* fairness.  ConcSpec handles several requests at once, each Execute in   *)
(* its own goroutine, with the Events as maps on a heap and runCommand     *)
(* taken as one step.                                                      *)
(***************************************************************************)
EXTENDS Integers, Sequences, FiniteSets, TLC

\* ------------------------------------------------------------------ bounds
\* longest config.Hook list explored
MaxHooks == 2
\* longest Commands list of a hook explored
MaxCmds == 2
\* longest "commits" list of an event explored
MaxCommits == 2
\* the requests handled at the same time
MaxDispatch == 2

\* --------------------------------------------------------- program constants
\* config.CommandTimeout default, webhook.go main
DefaultCommandTimeout == 5
\* largest accepted Content-Length, hookHandler
MaxContentLength == 16384
\* done := make(chan int, 1)
DoneCapacity == 1

\* ------------------------------------------------------------------ strings
Empty == <<>>
S(tok) == <<tok>>
RefsHeads == "refs/heads/"

\* strings.HasPrefix(s, prefix)
HasPrefix(s, prefix) ==
    /\ Len(s) >= Len(prefix)
    /\ SubSeq(s, 1, Len(prefix)) = prefix

\* s[n:]
SliceFrom(s, n) == SubSeq(s, n + 1, Len(s))

SeqsUpTo(X, n) == UNION { [1..k -> X] : k \in 0..n }

\* ------------------------------------------------------------ event values
\* A decoded JSON value: absent key, a number, a string, or a mapping.  v is
\* the text of a string or number, and the "id" member of a mapping.
Val(t, v) == [t |-> t, v |-> v]
Absent == Val("absent", Empty)
Str(tok) == Val("str", S(tok))
Num(tok) == Val("num", S(tok))
Map(id) == Val("map", S(id))

\* e["key"].(string): the value and ok
IsString(val) == val.t = "str"

\* ---------------------------------------------------------------- templates
\* A template source is one of
\*   lit a        literal text a
\*   env a        $a, expanded by os.ExpandEnv before parsing
\*   field a      {{.a}}
\*   sub a b      {{.a.b}}
\*   json a       {{json .a}}
\*   bad          text that does not parse, e.g. "{{"
Tpl(k, a, b) == [k |-> k, a |-> a, b |-> b]
Lit(a) == Tpl("lit", a, "")
EnvVar(a) == Tpl("env", a, "")
Field(a) == Tpl("field", a, "")
Sub(a, b) == Tpl("sub", a, b)
Json(a) == Tpl("json", a, "")
BadSyntax == Tpl("bad", "", "")
\* a nil *template.Template
NilT == Tpl("nil", "", "")

\* the host process environment read by os.ExpandEnv
HostEnv(name) == IF name = "HOME" THEN "/root" ELSE ""

\* createTemplate: expand the environment, then parse
createTemplate(source) ==
    LET expanded == IF source.k = "env" THEN Lit(HostEnv(source.a)) ELSE source
    IN  IF expanded.k = "bad"
          THEN [t |-> NilT, err |-> TRUE]
          ELSE [t |-> expanded, err |-> FALSE]

\* ------------------------------------------------------------------- hooks
\* type Hook struct (Url is the hook's index in config.Hook)
NewHook(dir, env, perCommit, allowEvent, allowStatus, allowBranches, commands, timeout, secret) ==
    [ Dir |-> dir, Env |-> env, PerCommit |-> perCommit,
      AllowEvent |-> allowEvent, AllowPipelineStatus |-> allowStatus,
      AllowBranches |-> allowBranches, Commands |-> commands,
      Timeout |-> timeout, Secret |-> secret,
      cmdTemplate |-> <<>>, envTemplate |-> <<>>, dirTemplate |-> NilT ]

EmptyDir == Lit("")

\* the first index of ts whose source does not compile, 0 if all compile
FirstBad(ts) ==
    LET bad == { i \in 1..Len(ts) : createTemplate(ts[i]).err }
    IN  IF bad = {} THEN 0 ELSE CHOOSE i \in bad : \A j \in bad : i <= j

\* the first command with an argument that does not compile, 0 if none
FirstBadCommand(commands) ==
    LET bad == { i \in 1..Len(commands) : FirstBad(commands[i]) # 0 }
    IN  IF bad = {} THEN 0 ELSE CHOOSE i \in bad : \A j \in bad : i <= j

\* the command loop of CreateTemplates (part_000:35-47): on the first
\* argument that fails, cmdTemplate is reset to nil
CompileCommands(hook) ==
    IF FirstBadCommand(hook.Commands) # 0
      THEN [hook |-> [hook EXCEPT !.cmdTemplate = <<>>], err |-> TRUE]
      ELSE [hook |-> [hook EXCEPT !.cmdTemplate =
                        [i \in 1..Len(hook.Commands) |->
                           [j \in 1..Len(hook.Commands[i]) |->
                              createTemplate(hook.Commands[i][j]).t]]],
            err |-> FALSE]

\* the environment branch of CreateTemplates (part_000:49-59): the slice is
\* allocated at full length, filled in order, and left as it is on an error
CompileEnv(hook) ==
    LET n == Len(hook.Env)
        b == FirstBad(hook.Env)
    IN  IF n = 0
          THEN [hook |-> [hook EXCEPT !.envTemplate = <<>>], err |-> FALSE]
          ELSE [hook |-> [hook EXCEPT !.envTemplate =
                            [i \in 1..n |->
                               IF b # 0 /\ i >= b THEN NilT
                               ELSE createTemplate(hook.Env[i]).t]],
                err |-> b # 0]

\* the directory branch of CreateTemplates (part_000:61-68)
CompileDir(hook) ==
    IF hook.Dir # EmptyDir
      THEN [hook |-> [hook EXCEPT !.dirTemplate = createTemplate(hook.Dir).t],
            err |-> createTemplate(hook.Dir).err]
      ELSE [hook |-> [hook EXCEPT !.dirTemplate = NilT], err |-> FALSE]

\* func (hook *Hook) CreateTemplates() error: the hook afterwards, and err
CreateTemplates(hook) ==
    LET c == CompileCommands(hook)
        v == CompileEnv(c.hook)
        d == CompileDir(v.hook)
    IN  IF c.err THEN c
        ELSE IF v.err THEN v
        ELSE d

\* ------------------------------------------------------------------ events
\* type Event map[string]interface{}: the keys the engine and the templates
\* of the model read.  commits is the payload's commit list.
NewEventValue(type, status, ref, commits) ==
    [ type |-> type, status |-> status, ref |-> ref,
      commit |-> Absent, commits |-> commits ]

NoCommits == [present |-> FALSE, list |-> <<>>]
CommitList(l) == [present |-> TRUE, list |-> l]

\* Lookup on an event whose ref the filter left stripped of its refs/heads/
LookupStripped(e, key) ==
    IF key = "ref" /\ e.ref.t = "str" /\ HasPrefix(e.ref.v, S(RefsHeads))
      THEN Val("str", SliceFrom(e.ref.v, Len(S(RefsHeads))))
    ELSE IF key \in {"type", "status", "ref", "commit"} THEN e[key]
    ELSE Absent

\* e[key] for a template
Lookup(e, key) ==
    IF key \in {"type", "status", "ref", "commit"} THEN e[key] ELSE Absent

\* ---------------------------------------------------------------- rendering
NoValue == S("<no value>")

\* fmt's text of a value, as text/template prints it
TextOf(val) ==
    CASE val.t = "absent" -> NoValue
      [] val.t = "map"    -> S("map[id:") \o val.v \o S("]")
      [] OTHER            -> val.v

\* templateFuncs["json"]: json.Marshal of a decoded value never fails
JsonOf(val) ==
    CASE val.t = "absent" -> S("null")
      [] val.t = "str"    -> S("\"") \o val.v \o S("\"")
      [] val.t = "map"    -> S("{\"id\":\"") \o val.v \o S("\"}")
      [] OTHER            -> val.v

\* t.Execute(buf, e): the text written, whether it failed, and whether the
\* receiver was a nil template (a nil dereference)
Render(t, e) ==
    CASE t.k = "nil"   -> [out |-> Empty, err |-> FALSE, panic |-> TRUE]
      [] t.k = "lit"   -> [out |-> IF t.a = "" THEN Empty ELSE S(t.a),
                           err |-> FALSE, panic |-> FALSE]
      [] t.k = "field" -> [out |-> TextOf(Lookup(e, t.a)),
                           err |-> FALSE, panic |-> FALSE]
      [] t.k = "json"  -> [out |-> JsonOf(Lookup(e, t.a)),
                           err |-> FALSE, panic |-> FALSE]
      [] t.k = "sub"   ->
           IF Lookup(e, t.a).t = "map"
             THEN [out |-> IF t.b = "id" THEN Lookup(e, t.a).v ELSE NoValue,
                   err |-> FALSE, panic |-> FALSE]
             ELSE [out |-> Empty, err |-> TRUE, panic |-> FALSE]
      [] OTHER         -> [out |-> Empty, err |-> TRUE, panic |-> FALSE]

\* the first index of ts whose rendering fails or panics, 0 if none
FirstFailing(ts, e) ==
    LET bad == { i \in 1..Len(ts) : Render(ts[i], e).err \/ Render(ts[i], e).panic }
    IN  IF bad = {} THEN 0 ELSE CHOOSE i \in bad : \A j \in bad : i <= j

\* processCommand: the rendered argument list, or the first error; n is the
\* number of templates executed
processCommand(e, templateList) ==
    LET b == FirstFailing(templateList, e)
    IN  IF b = 0
          THEN [cmdList |-> [i \in 1..Len(templateList) |->
                               Render(templateList[i], e).out],
                err |-> FALSE, panic |-> FALSE, n |-> Len(templateList)]
          ELSE [cmdList |-> <<>>, err |-> Render(templateList[b], e).err,
                panic |-> Render(templateList[b], e).panic, n |-> b]

\* the programs found on the search path
OnPath == { S("echo"), S("sleep"), S("sh") }

\* exec.LookPath(file)
LookPath(file) ==
    IF file \in OnPath
      THEN [path |-> S("/bin/") \o file, err |-> FALSE]
      ELSE [path |-> Empty, err |-> TRUE]

\* ----------------------------------------------------- processEvent, part 1
\* One step of the preparation of a unit: s is "dir", "env", "arg" or "look",
\* i the environment or command index, j the argument index.
Step(s, i, j) == [s |-> s, i |-> i, j |-> j]

Prepared(outcome, dir, env, cmds, steps) ==
    [outcome |-> outcome, dir |-> dir, env |-> env, cmds |-> cmds, steps |-> steps]

\* the command loop of processEvent (part_000:205-216), from command i on:
\* render command i, resolve its program, then go on to command i+1
RECURSIVE PrepareCommands(_, _, _, _, _, _)

\* PrepareCommands with resolution not holding the unit back: at a program
\* that is not found, the commands resolved so far are handed to the run loop
PrepareCommandsRunResolved(hook, e, i, dir, env, acc) ==
    IF i > Len(hook.cmdTemplate)
      THEN Prepared("ok", dir, env, acc.cmds, acc.steps)
      ELSE
        LET r       == processCommand(e, hook.cmdTemplate[i])
            rsteps  == acc.steps \o [j \in 1..r.n |-> Step("arg", i, j)]
            lsteps  == rsteps \o <<Step("look", i, 0)>>
        IN  IF r.panic THEN Prepared("panic", dir, env, acc.cmds, rsteps)
            ELSE IF r.err THEN Prepared("render", dir, env, acc.cmds, rsteps)
            ELSE IF Len(r.cmdList) = 0 THEN Prepared("panic", dir, env, acc.cmds, rsteps)
            ELSE IF LookPath(r.cmdList[1]).err
                   THEN Prepared("ok", dir, env, acc.cmds, lsteps)
            ELSE PrepareCommands(hook, e, i + 1, dir, env,
                    [cmds  |-> Append(acc.cmds,
                                 [r.cmdList EXCEPT ![1] = LookPath(r.cmdList[1]).path]),
                     steps |-> lsteps])

PrepareCommands(hook, e, i, dir, env, acc) ==
    IF i > Len(hook.cmdTemplate)
      THEN Prepared("ok", dir, env, acc.cmds, acc.steps)
      ELSE
        LET r       == processCommand(e, hook.cmdTemplate[i])
            rsteps  == acc.steps \o [j \in 1..r.n |-> Step("arg", i, j)]
            lsteps  == rsteps \o <<Step("look", i, 0)>>
        IN  IF r.panic THEN Prepared("panic", dir, env, acc.cmds, rsteps)
            ELSE IF r.err THEN Prepared("render", dir, env, acc.cmds, rsteps)
            \* cmds[i][0] of an empty argument list: index out of range
            ELSE IF Len(r.cmdList) = 0 THEN Prepared("panic", dir, env, acc.cmds, rsteps)
            ELSE IF LookPath(r.cmdList[1]).err
                   THEN Prepared("resolve", dir, env, acc.cmds, lsteps)
            ELSE PrepareCommands(hook, e, i + 1, dir, env,
                    [cmds  |-> Append(acc.cmds,
                                 [r.cmdList EXCEPT ![1] = LookPath(r.cmdList[1]).path]),
                     steps |-> lsteps])

\* PrepareEnv that goes on to the commands after an environment entry failed
\* to render, with what was rendered so far
PrepareEnvKeepGoing(hook, e, dir, steps) ==
    LET esteps == steps \o [i \in 1..Len(hook.envTemplate) |-> Step("env", i, 0)]
        env == [i \in 1..Len(hook.envTemplate) |-> Render(hook.envTemplate[i], e).out]
    IN  PrepareCommands(hook, e, 1, dir, env, [cmds |-> <<>>, steps |-> esteps])

\* the environment loop of processEvent (part_000:194-203), then the commands
PrepareEnv(hook, e, dir, steps) ==
    LET b == FirstFailing(hook.envTemplate, e)
        n == IF b = 0 THEN Len(hook.envTemplate) ELSE b
        esteps == steps \o [i \in 1..n |-> Step("env", i, 0)]
        env == [i \in 1..Len(hook.envTemplate) |->
                  IF i <= n THEN Render(hook.envTemplate[i], e).out ELSE Empty]
    IN  IF b # 0
          THEN Prepared(IF Render(hook.envTemplate[b], e).panic THEN "panic" ELSE "render",
                        dir, env, <<>>, esteps)
          ELSE PrepareCommands(hook, e, 1, dir, env, [cmds |-> <<>>, steps |-> esteps])

\* processEvent up to the run loop (part_000:180-216): the directory, the
\* environment and the commands rendered and resolved, or the first failure
Prepare(hook, e) ==
    IF hook.dirTemplate # NilT
      THEN LET r == Render(hook.dirTemplate, e)
           IN  IF r.err
                 THEN Prepared("render", r.out, <<>>, <<>>, <<Step("dir", 0, 0)>>)
                 ELSE PrepareEnv(hook, e, r.out, <<Step("dir", 0, 0)>>)
      ELSE PrepareEnv(hook, e, Empty, <<>>)

\* ------------------------------------------------------------ Execute, filter
Contains(list, s) == \E i \in 1..Len(list) : list[i] = s

\* a logged line: its severity, what it reports, and the unit of work it is
\* about (0: the event as a whole)
LogEntry(sev, what, u) == [sev |-> sev, what |-> what, u |-> u]

\* StripRef that strips every leading refs/heads/
RECURSIVE StripRefAll(_)
StripRefAll(ref) ==
    IF HasPrefix(ref, S(RefsHeads))
      THEN StripRefAll(SliceFrom(ref, Len(S(RefsHeads))))
      ELSE ref

\* Strip off refs/heads, if present (part_000:124-127)
StripRef(ref) ==
    IF HasPrefix(ref, S(RefsHeads)) THEN SliceFrom(ref, Len(S(RefsHeads))) ELSE ref

Verdict(accept, logs) == [accept |-> accept, logs |-> logs]

\* the branch allow-list (part_000:116-144)
FilterBranch(hook, e) ==
    IF Len(hook.AllowBranches) # 0
      THEN IF ~IsString(e.ref)
             THEN Verdict(FALSE, <<LogEntry("warning", "non-string ref", 0)>>)
           ELSE IF ~Contains(hook.AllowBranches, StripRef(e.ref.v))
             THEN Verdict(FALSE, <<LogEntry("info", "ignored branch", 0)>>)
           ELSE Verdict(TRUE, <<>>)
      ELSE Verdict(TRUE, <<>>)

\* FilterStatus that lets an event without a string status through
FilterStatusLenient(hook, e) ==
    IF Len(hook.AllowPipelineStatus) # 0 /\ IsString(e.status)
         /\ ~Contains(hook.AllowPipelineStatus, e.status.v)
      THEN Verdict(FALSE, <<LogEntry("info", "incorrect pipeline status", 0)>>)
      ELSE FilterBranch(hook, e)

\* the pipeline status allow-list (part_000:95-114), then the branches
FilterStatus(hook, e) ==
    IF Len(hook.AllowPipelineStatus) # 0
      THEN IF ~IsString(e.status)
             THEN Verdict(FALSE, <<LogEntry("warning", "non-string status", 0)>>)
           ELSE IF ~Contains(hook.AllowPipelineStatus, e.status.v)
             THEN Verdict(FALSE, <<LogEntry("info", "incorrect pipeline status", 0)>>)
           ELSE FilterBranch(hook, e)
      ELSE FilterBranch(hook, e)

\* Filter that looks at the pipeline status before the event type
FilterStatusFirst(hook, e) ==
    IF Len(hook.AllowPipelineStatus) # 0 /\ ~IsString(e.status)
      THEN Verdict(FALSE, <<LogEntry("warning", "non-string status", 0)>>)
    ELSE IF Len(hook.AllowPipelineStatus) # 0
            /\ ~Contains(hook.AllowPipelineStatus, e.status.v)
      THEN Verdict(FALSE, <<LogEntry("info", "incorrect pipeline status", 0)>>)
    ELSE IF Len(hook.AllowEvent) # 0 /\ ~IsString(e.type)
      THEN Verdict(FALSE, <<LogEntry("warning", "non-string type", 0)>>)
    ELSE IF Len(hook.AllowEvent) # 0 /\ ~Contains(hook.AllowEvent, e.type.v)
      THEN Verdict(FALSE, <<LogEntry("warning", "disallowed event type", 0)>>)
    ELSE FilterBranch(hook, e)

\* the filters of Execute (part_000:75-144): event type, then status, then branch
Filter(hook, e) ==
    IF Len(hook.AllowEvent) # 0
      THEN IF ~IsString(e.type)
             THEN Verdict(FALSE, <<LogEntry("warning", "non-string type", 0)>>)
           ELSE IF ~Contains(hook.AllowEvent, e.type.v)
             THEN Verdict(FALSE, <<LogEntry("warning", "disallowed event type", 0)>>)
           ELSE FilterStatus(hook, e)
      ELSE FilterStatus(hook, e)

\* Event.Commits(): the payload's commit list, nil when there is none
Commits(e) == IF e.commits.present THEN e.commits.list ELSE <<>>

\* NewEvent(body, eventType): the decoded event, or an error for a body that
\* is not JSON
NewEvent(body) == [event |-> body.event, err |-> ~body.ok]

\* ------------------------------------------------------------------- state
VARIABLES
    config,     \* Config: Secret and CommandTimeout
    hooks,      \* config.Hook
    mainPc,     \* main: "load", "serving", "exited", or "crashed" (a panic)
    loadIdx,    \* the hook the loading loop of main is at
    failed,     \* main's failed flag
    request,    \* the request a client sends
    response,   \* what hookHandler answered and logged
    pc,         \* the goroutine running Execute
    h,          \* the hook Execute was dispatched for
    e,          \* its Event
    ci,         \* the next element of the commit list
    log,        \* the lines Execute has logged
    prep,       \* processEvent's dir, env and cmds
    k,          \* the command processEvent's run loop is at
    run,        \* runCommand: the child, the waiter goroutine, done, the timer
                \* (atExpiry: the state of the child when the timer expired;
                \* tree: the processes the child has started itself)
    ret,        \* what the last runCommand of the current unit returned
    orphans,    \* waiter goroutines left behind by a timed out runCommand
    spawned,    \* the commands of the current unit that cmd.Start() was called for
    results,    \* how each finished command of the current unit ended
    units       \* the elements processEvent has been called for

mainVars == <<config, hooks, mainPc, loadIdx, failed>>
reqVars  == <<request, response>>
exeVars  == <<pc, h, e, ci, log, prep, k, run, ret, orphans, spawned, results, units>>

\* Several requests at once: each has its handler and, when dispatched, its
\* own goroutine running Execute.  An Event is a Go map, a reference: heap is
\* the maps that exist, a goroutine holds the address of the one it was given.
VARIABLES
    reqs,       \* the requests handled at the same time
    heap,       \* the Event maps NewEvent has built, by address
    gs          \* per request: where its handler or its Execute is, the
                \* address of its Event, its unit of work and what it spawned

concVars == <<reqs, heap, gs>>
vars     == <<config, hooks, mainPc, loadIdx, failed, request, response,
              pc, h, e, ci, log, prep, k, run, ret, orphans, spawned, results, units,
              reqs, heap, gs>>

IdleRun == [child |-> "none", status |-> "none", waiter |-> "none",
            done |-> 0, timer |-> "none", atExpiry |-> "none", tree |-> "none"]
NoPrep == Prepared("none", Empty, <<>>, <<>>, <<>>)
NullEvent == NewEventValue(Absent, Absent, Absent, NoCommits)
NoResponse == [status |-> "none", warned |-> "none"]

\* -------------------------------------------------------------------- main
\* the body of main's loading loop (webhook.go:236-254) for one hook
LoadOne(cfg, hook) ==
    LET timeout == IF hook.Timeout = 0 THEN cfg.CommandTimeout ELSE hook.Timeout
        secret  == IF hook.Secret = "none" THEN ""
                   ELSE IF hook.Secret = "" THEN cfg.Secret
                   ELSE hook.Secret
    IN  CreateTemplates([hook EXCEPT !.Timeout = timeout, !.Secret = secret])

LoadHook ==
    /\ mainPc = "load"
    /\ loadIdx <= Len(hooks)
    /\ hooks' = [hooks EXCEPT ![loadIdx] = LoadOne(config, hooks[loadIdx]).hook]
    /\ failed' = (failed \/ LoadOne(config, hooks[loadIdx]).err)
    /\ loadIdx' = loadIdx + 1
    /\ UNCHANGED <<config, mainPc>>
    /\ UNCHANGED reqVars
    /\ UNCHANGED concVars
    /\ UNCHANGED exeVars

\* AfterLoad that serves whatever the loop found
AfterLoadServeAnyway(anyFailed, listenOk) ==
    IF listenOk THEN "serving" ELSE "exited"

\* what main does after the loop (webhook.go:256-260)
AfterLoad(anyFailed, listenOk) ==
    IF anyFailed THEN "exited"
    ELSE IF listenOk THEN "serving"
    ELSE "exited"

\* if failed { os.Exit(1) }
MainExit ==
    /\ mainPc = "load"
    /\ loadIdx > Len(hooks)
    /\ failed
    /\ mainPc' = AfterLoad(failed, TRUE)
    /\ UNCHANGED <<config, hooks, loadIdx, failed>>
    /\ UNCHANGED reqVars
    /\ UNCHANGED concVars
    /\ UNCHANGED exeVars

\* RunServer(config): SetupServer listens (a failure is fatal) and registers
\* every hook's route, then http.Serve
RunServer ==
    /\ mainPc = "load"
    /\ loadIdx > Len(hooks)
    /\ ~failed
    /\ \E listenOk \in BOOLEAN : mainPc' = AfterLoad(failed, listenOk)
    /\ UNCHANGED <<config, hooks, loadIdx, failed>>
    /\ UNCHANGED reqVars
    /\ UNCHANGED concVars
    /\ UNCHANGED exeVars

\* ------------------------------------------------------------- hookHandler
Answer(status, warned, dispatch) ==
    [status |-> status, warned |-> warned, dispatch |-> dispatch]

\* hookHandler that checks the token only when the request carries one
hookHandlerTokenOptional(hook, req) ==
    IF req.contentLength > MaxContentLength
      THEN Answer("too large", "none", FALSE)
    ELSE IF hook.Secret # "" /\ req.token # "" /\ req.token # hook.Secret
      THEN Answer("forbidden", "bad secret", FALSE)
    ELSE IF NewEvent(req.body).err
      THEN Answer("ok", "json error", FALSE)
    ELSE Answer("ok", "none", TRUE)

\* hookHandler (part_001:14-58): the answer, what is logged, and whether
\* hook.Execute is started
hookHandler(hook, req) ==
    IF req.contentLength > MaxContentLength
      THEN Answer("too large", "none", FALSE)
    ELSE IF hook.Secret # "" /\ req.token # "" /\ req.token # hook.Secret
      THEN Answer("forbidden", "bad secret", FALSE)
    ELSE IF hook.Secret # "" /\ req.token = ""
      THEN Answer("forbidden", "no secret", FALSE)
    ELSE IF NewEvent(req.body).err
      THEN Answer("ok", "json error", FALSE)
    ELSE Answer("ok", "none", TRUE)

Alive == mainPc = "serving"

HookHandler ==
    /\ Alive
    /\ pc = "idle"
    /\ response = NoResponse
    /\ LET a == hookHandler(hooks[request.hook], request)
       IN  /\ response' = [status |-> a.status, warned |-> a.warned]
           /\ IF a.dispatch
                THEN /\ pc' = "filter"
                     /\ h' = request.hook
                     /\ e' = NewEvent(request.body).event
                ELSE UNCHANGED <<pc, h, e>>
    /\ UNCHANGED <<ci, log, prep, k, run, ret, orphans, spawned, results, units>>
    /\ UNCHANGED request
    /\ UNCHANGED concVars
    /\ UNCHANGED mainVars

\* ----------------------------------------------------------------- Execute
\* where Execute goes when a unit is over: the next commit, or the end
AfterUnit(hook) == IF hook.PerCommit THEN "loop" ELSE "done"

\* Execute, lines 75-146: the filters, then the choice of the unit of work
ExecuteFilter ==
    /\ Alive
    /\ pc = "filter"
    /\ LET v == Filter(hooks[h], e)
       IN  /\ log' = log \o v.logs
           /\ pc' = IF ~v.accept THEN "rejected"
                    ELSE IF hooks[h].PerCommit THEN "loop"
                    ELSE "unit"
    /\ ci' = 1
    /\ UNCHANGED <<h, e, prep, k, run, ret, orphans, spawned, results, units>>
    /\ UNCHANGED reqVars
    /\ UNCHANGED concVars
    /\ UNCHANGED mainVars

\* Execute, lines 147-158: one turn of the per-commit loop up to processEvent
ExecuteLoop ==
    /\ Alive
    /\ pc = "loop"
    /\ LET commits == Commits(e)
       IN  IF ci > Len(commits)
             THEN /\ pc' = "done"
                  /\ UNCHANGED <<e, ci, log, ret, spawned, results>>
           ELSE IF commits[ci].t # "map"
             THEN /\ log' = Append(log, LogEntry("error", "commit type", 0))
                  /\ ci' = ci + 1
                  /\ UNCHANGED <<pc, e, ret, spawned, results>>
           ELSE /\ e' = [e EXCEPT !.commit = commits[ci]]
                /\ ci' = ci + 1
                /\ pc' = "unit"
                /\ spawned' = <<>>
                /\ results' = <<>>
                /\ ret' = "none"
                /\ UNCHANGED log
    /\ UNCHANGED <<h, prep, k, run, orphans, units>>
    /\ UNCHANGED reqVars
    /\ UNCHANGED concVars
    /\ UNCHANGED mainVars

\* processEvent, lines 180-216, and for a failure the return to Execute,
\* which logs it (lines 159-165, 169-175)
ProcessEvent ==
    /\ Alive
    /\ pc = "unit"
    /\ LET p == Prepare(hooks[h], e)
       IN  /\ prep' = p
           /\ units' = Append(units, IF hooks[h].PerCommit THEN ci - 1 ELSE 0)
           /\ CASE p.outcome = "ok" ->
                     /\ pc' = "run"
                     /\ UNCHANGED <<log, mainPc>>
                [] p.outcome = "panic" ->
                     /\ pc' = "panicked"
                     /\ mainPc' = "crashed"
                     /\ UNCHANGED log
                [] OTHER ->
                     /\ log' = Append(log, LogEntry("error", p.outcome, Len(units) + 1))
                     /\ pc' = AfterUnit(hooks[h])
                     /\ UNCHANGED mainPc
    /\ k' = 1
    /\ ret' = "none"
    /\ UNCHANGED <<h, e, ci, run, orphans, spawned, results>>
    /\ UNCHANGED <<config, hooks, loadIdx, failed>>
    /\ UNCHANGED reqVars
    /\ UNCHANGED concVars

\* the program of args starts processes of its own: a shell running the
\* programs of its script
Forks(args) == args[1] = S("/bin/") \o S("sh")

\* runCommand, lines 245-264: cmd.Start(), which may fail, the waiter
\* goroutine and the timer; exec.Command sets no SysProcAttr, so the child
\* and what it starts stay in the service's process group
StartCommand(started, forks) ==
    [child |-> IF started THEN "running" ELSE "failed", status |-> "none",
     waiter |-> "waiting", done |-> 0, timer |-> "armed", atExpiry |-> "none",
     tree |-> IF started /\ forks THEN "running" ELSE "none"]

RunCommand ==
    /\ Alive
    /\ pc = "run"
    /\ k <= Len(prep.cmds)
    /\ \E started \in BOOLEAN : run' = StartCommand(started, Forks(prep.cmds[k]))
    /\ spawned' = Append(spawned, k)
    /\ pc' = "select"
    /\ ret' = "none"
    /\ UNCHANGED <<h, e, ci, log, prep, k, orphans, results, units>>
    /\ UNCHANGED reqVars
    /\ UNCHANGED concVars
    /\ UNCHANGED mainVars

\* processEvent, lines 218-225, past the last command: return nil
UnitDone ==
    /\ Alive
    /\ pc = "run"
    /\ k > Len(prep.cmds)
    /\ pc' = AfterUnit(hooks[h])
    /\ run' = IdleRun
    /\ UNCHANGED <<h, e, ci, log, prep, k, ret, orphans, spawned, results, units>>
    /\ UNCHANGED reqVars
    /\ UNCHANGED concVars
    /\ UNCHANGED mainVars

\* the child process terminates by itself
ChildExit ==
    /\ run.child = "running"
    /\ \E st \in {"ok", "nonzero", "signal"} :
         run' = [run EXCEPT !.child = "exited", !.status = st]
    /\ UNCHANGED <<pc, h, e, ci, log, prep, k, ret, orphans, spawned, results, units>>
    /\ UNCHANGED reqVars
    /\ UNCHANGED concVars
    /\ UNCHANGED mainVars

\* a process the child started terminates by itself
DescendantExit ==
    /\ run.tree = "running"
    /\ run' = [run EXCEPT !.tree = "exited"]
    /\ UNCHANGED <<pc, h, e, ci, log, prep, k, ret, orphans, spawned, results, units>>
    /\ UNCHANGED reqVars
    /\ UNCHANGED concVars
    /\ UNCHANGED mainVars

\* the waiter goroutine, line 260: cmd.Wait() returns, its result dropped
WaiterWait ==
    /\ Alive
    /\ run.waiter = "waiting"
    /\ run.child \in {"exited", "failed"}
    /\ run' = [run EXCEPT !.waiter = "send"]
    /\ UNCHANGED <<pc, h, e, ci, log, prep, k, ret, orphans, spawned, results, units>>
    /\ UNCHANGED reqVars
    /\ UNCHANGED concVars
    /\ UNCHANGED mainVars

\* a send on a channel that has no buffer and nobody receiving
SendReadyNoBuffer(n) == n < 0

\* done <- 1 can proceed: the channel holds n values and has room for one more
SendReady(n) == n < DoneCapacity

\* the waiter goroutine, line 261: done <- 1 on a channel of capacity 1
WaiterSend ==
    /\ Alive
    /\ run.waiter = "send"
    /\ SendReady(run.done)
    /\ run' = [run EXCEPT !.waiter = "finished", !.done = 1]
    /\ UNCHANGED <<pc, h, e, ci, log, prep, k, ret, orphans, spawned, results, units>>
    /\ UNCHANGED reqVars
    /\ UNCHANGED concVars
    /\ UNCHANGED mainVars

\* the timer of line 264 expires
TimerFire ==
    /\ Alive
    /\ run.timer = "armed"
    /\ run' = [run EXCEPT !.timer = "fired", !.atExpiry = run.child]
    /\ UNCHANGED <<pc, h, e, ci, log, prep, k, ret, orphans, spawned, results, units>>
    /\ UNCHANGED reqVars
    /\ UNCHANGED concVars
    /\ UNCHANGED mainVars

\* select, case <-done (lines 267-269): stop the timer, return nil
SelectDone ==
    /\ Alive
    /\ pc = "select"
    /\ run.done = 1
    /\ run' = [run EXCEPT !.done = 0,
                          !.timer = IF @ = "armed" THEN "stopped" ELSE @]
    /\ ret' = "nil"
    /\ results' = Append(results, IF run.status = "ok" THEN "ok" ELSE "failed")
    /\ k' = k + 1
    /\ pc' = "run"
    /\ UNCHANGED <<h, e, ci, log, prep, orphans, spawned, units>>
    /\ UNCHANGED reqVars
    /\ UNCHANGED concVars
    /\ UNCHANGED mainVars

\* Kill that leaves the child running
KillNothing(r) ==
    IF r.child = "failed" THEN [run |-> r, panic |-> TRUE]
    ELSE [run |-> r, panic |-> FALSE]

\* cmd.Process.Kill() (line 272): a nil Process is a nil dereference, a
\* running child dies, a child that already exited is left as it is; the
\* signal goes to that one process, what it started is not signalled
Kill(r) ==
    CASE r.child = "failed"  -> [run |-> r, panic |-> TRUE]
      [] r.child = "running" ->
           [run |-> [r EXCEPT !.child = "exited", !.status = "killed"], panic |-> FALSE]
      [] OTHER               -> [run |-> r, panic |-> FALSE]

\* the waiter goroutines of the model after runCommand returned on the
\* timeout with the waiter in state w
Orphaned(o, w) ==
    CASE w = "waiting" -> [o EXCEPT !.wait = @ + 1]
      [] w = "send"    -> [o EXCEPT !.send = @ + 1]
      [] OTHER         -> o

\* SelectTimeout that also doubles the hook's Timeout for the next command
SelectTimeoutBackoff ==
    /\ Alive
    /\ pc = "select"
    /\ run.timer = "fired"
    /\ LET kr == Kill(run)
       IN  IF kr.panic
             THEN /\ pc' = "panicked"
                  /\ mainPc' = "crashed"
                  /\ UNCHANGED <<run, ret, log, orphans, results, hooks>>
             ELSE /\ run' = [kr.run EXCEPT !.waiter = "detached"]
                  /\ orphans' = Orphaned(orphans, run.waiter)
                  /\ ret' = "timeout"
                  /\ results' = Append(results, "timeout")
                  /\ log' = Append(log, LogEntry("error", "timeout", Len(units)))
                  /\ pc' = AfterUnit(hooks[h])
                  /\ hooks' = [hooks EXCEPT ![h].Timeout = 2 * @]
                  /\ UNCHANGED mainPc
    /\ UNCHANGED <<h, e, ci, prep, k, spawned, units>>
    /\ UNCHANGED <<config, loadIdx, failed>>
    /\ UNCHANGED reqVars
    /\ UNCHANGED concVars

\* select, case <-timer.C (lines 271-273): kill, return the timeout error;
\* processEvent returns it and Execute logs it
SelectTimeout ==
    /\ Alive
    /\ pc = "select"
    /\ run.timer = "fired"
    /\ LET kr == Kill(run)
       IN  IF kr.panic
             THEN /\ pc' = "panicked"
                  /\ mainPc' = "crashed"
                  /\ UNCHANGED <<run, ret, log, orphans, results>>
             ELSE /\ run' = [kr.run EXCEPT !.waiter = "detached"]
                  /\ orphans' = Orphaned(orphans, run.waiter)
                  /\ ret' = "timeout"
                  /\ results' = Append(results, "timeout")
                  /\ log' = Append(log, LogEntry("error", "timeout", Len(units)))
                  /\ pc' = AfterUnit(hooks[h])
                  /\ UNCHANGED mainPc
    /\ UNCHANGED <<h, e, ci, prep, k, spawned, units>>
    /\ UNCHANGED <<config, hooks, loadIdx, failed>>
    /\ UNCHANGED reqVars
    /\ UNCHANGED concVars

\* a waiter left behind: cmd.Wait() returns for the killed or exited child
OrphanWait ==
    /\ Alive
    /\ orphans.wait > 0
    /\ orphans' = [wait |-> orphans.wait - 1, send |-> orphans.send + 1]
    /\ UNCHANGED <<pc, h, e, ci, log, prep, k, run, ret, spawned, results, units>>
    /\ UNCHANGED reqVars
    /\ UNCHANGED concVars
    /\ UNCHANGED mainVars

\* a waiter left behind: done <- 1 into the buffer nobody reads, which is
\* empty, this goroutine being the channel's only sender; and exit
OrphanSend ==
    /\ Alive
    /\ orphans.send > 0
    /\ SendReady(0)
    /\ orphans' = [orphans EXCEPT !.send = @ - 1]
    /\ UNCHANGED <<pc, h, e, ci, log, prep, k, run, ret, spawned, results, units>>
    /\ UNCHANGED reqVars
    /\ UNCHANGED concVars
    /\ UNCHANGED mainVars

\* ------------------------------------------------------------------ inputs
Echo == Lit("echo")
EchoRef == <<Echo, Field("ref")>>
OneCommand == <<EchoRef>>

HookWith(dir, env, commands, secret, timeout) ==
    NewHook(dir, env, FALSE, <<>>, <<>>, <<>>, commands, timeout, secret)

PlainHook == HookWith(EmptyDir, <<>>, OneCommand, "", 0)

\* hooks whose template sources are valid or not, in every position
TemplateHooks ==
    { HookWith(dir, env, commands, "", 0) :
        dir \in {EmptyDir, EnvVar("HOME"), BadSyntax},
        env \in SeqsUpTo({Lit("A=1"), BadSyntax}, 2),
        commands \in {OneCommand, <<EchoRef, <<Echo, BadSyntax>>>>,
                      <<<<BadSyntax>>, EchoRef>>} }

\* hooks that differ in their secret and their timeout
SecretHooks ==
    { HookWith(EmptyDir, <<>>, OneCommand, secret, timeout) :
        secret \in {"", "none", "s3cret"}, timeout \in {0, 2} }

\* the hooks of the longer configurations
SmallHooks ==
    { HookWith(EmptyDir, <<>>, OneCommand, "", 0),
      HookWith(EmptyDir, <<>>, OneCommand, "s3cret", 0),
      HookWith(EmptyDir, <<>>, <<<<Echo, BadSyntax>>>>, "", 0),
      HookWith(BadSyntax, <<Lit("A=1")>>, OneCommand, "none", 0) }

PushEvent == NewEventValue(Str("push"), Str("success"),
                           Val("str", <<RefsHeads, "main">>), NoCommits)

Request(hook, contentLength, token, ok, event) ==
    [hook |-> hook, contentLength |-> contentLength, token |-> token,
     body |-> [ok |-> ok, event |-> event]]

PlainRequest(event) == Request(1, 100, "", TRUE, event)

\* configurations and requests that exercise loading, secrets and decoding
LoadInputs ==
    { [config |-> [Secret |-> secret, CommandTimeout |-> DefaultCommandTimeout],
       hooks |-> hs, request |-> Request(i, len, token, ok, PushEvent)] :
        secret \in {"", "global"},
        hs \in { <<x>> : x \in TemplateHooks \cup SecretHooks }
               \cup (SeqsUpTo(SmallHooks, MaxHooks) \ SeqsUpTo(SmallHooks, 1)),
        i \in 1..MaxHooks, len \in {100, 20000},
        token \in {"", "s3cret", "global", "wrong"}, ok \in BOOLEAN }

\* hooks and events that exercise the filters
FilterHooks ==
    { NewHook(EmptyDir, <<>>, FALSE, ae, as, ab, OneCommand, 0, "") :
        ae \in {<<>>, <<S("push")>>, <<S("tag"), S("push")>>},
        as \in {<<>>, <<S("success")>>},
        ab \in {<<>>, <<S("main")>>, <<S("feature")>>,
                <<S("main"), <<RefsHeads, "dev">>>>} }

FilterEvents ==
    { NewEventValue(type, status, ref, NoCommits) :
        type \in {Absent, Num("7"), Str("push"), Str("merge")},
        status \in {Absent, Num("7"), Str("success"), Str("failed")},
        ref \in {Absent, Num("7")} \cup
                { Val("str", r) : r \in { <<"main">>, <<RefsHeads, "main">>,
                     <<RefsHeads, "feature", "/x">>, <<"feature">>,
                     <<RefsHeads, RefsHeads, "main">>, <<RefsHeads, "dev">>,
                     <<RefsHeads, RefsHeads, "dev">> } } }

DefaultConfig == [Secret |-> "", CommandTimeout |-> DefaultCommandTimeout]

FilterInputs ==
    { [config |-> DefaultConfig, hooks |-> <<x>>, request |-> PlainRequest(ev)] :
        x \in FilterHooks, ev \in FilterEvents }

\* hooks and events that exercise rendering: directory, environment, commands
CommitId == Sub("commit", "id")

RenderHooks ==
    { NewHook(dir, env, pc0, <<>>, <<>>, <<>>, commands, 0, "") :
        dir \in {EmptyDir, Lit("/tmp"), CommitId, Json("ref")},
        env \in SeqsUpTo({Lit("A=1"), CommitId}, 2),
        pc0 \in BOOLEAN,
        commands \in {<<EchoRef, <<Echo, CommitId>>>>} }

CommitEvents(lists) ==
    { NewEventValue(Str("push"), Absent, Val("str", <<RefsHeads, "main">>), c) :
        c \in lists }

RenderInputs ==
    { [config |-> DefaultConfig, hooks |-> <<x>>, request |-> PlainRequest(ev)] :
        x \in RenderHooks,
        ev \in CommitEvents({NoCommits, CommitList(<<Map("c1")>>)}) }

\* hooks and events that exercise the run loop and the per-commit loop
CmdChoices == { EchoRef, <<Lit("nosuch")>>, <<Echo, CommitId>>, <<>> }

\* command lists: every list of one or two commands, and the longer lists
\* with at most one command that is not the plain echo
RunCommands ==
    SeqsUpTo(CmdChoices, 2)
      \cup { cs \in SeqsUpTo(CmdChoices, MaxCmds) :
               Cardinality({ i \in 1..Len(cs) : cs[i] # EchoRef }) <= 1 }

CommitLists ==
    { CommitList(l) : l \in SeqsUpTo({Map("c1"), Num("7")}, MaxCommits) }
      \cup {NoCommits, CommitList(<<Map("c1"), Map("c2")>>)}

\* a shell that runs a program of its own
Fork == <<Lit("sh"), Lit("-c"), Lit("sleep 60; true")>>

\* hooks whose commands start processes of their own
TreeInputs ==
    { [config |-> DefaultConfig,
       hooks |-> <<HookWith(EmptyDir, <<>>, commands, "", 0)>>,
       request |-> PlainRequest(PushEvent)] :
        commands \in (SeqsUpTo({EchoRef, Fork}, MaxCmds) \ {<<>>}) }

RunInputs ==
    { [config |-> DefaultConfig,
       hooks |-> <<NewHook(EmptyDir, <<>>, perCommit, <<>>, <<>>, <<>>, commands, 0, "")>>,
       request |-> PlainRequest(ev)] :
        perCommit \in BOOLEAN,
        commands \in RunCommands,
        ev \in CommitEvents(CommitLists) }

Inputs == LoadInputs \cup FilterInputs \cup RenderInputs \cup RunInputs \cup TreeInputs

\* ----------------------------------------------------------- specification
Init ==
    /\ \E in \in Inputs :
         /\ in.request.hook <= Len(in.hooks)
         /\ (~in.hooks[1].PerCommit => in.request.body.event.commits
                                         \in {NoCommits, CommitList(<<Map("c1")>>)})
         /\ config = in.config
         /\ hooks = in.hooks
         /\ request = in.request
    /\ mainPc = "load"
    /\ loadIdx = 1
    /\ failed = FALSE
    /\ response = NoResponse
    /\ pc = "idle"
    /\ h = 1
    /\ e = NullEvent
    /\ ci = 1
    /\ log = <<>>
    /\ prep = NoPrep
    /\ k = 1
    /\ run = IdleRun
    /\ ret = "none"
    /\ orphans = [wait |-> 0, send |-> 0]
    /\ spawned = <<>>
    /\ results = <<>>
    /\ units = <<>>
    /\ reqs = <<>>
    /\ heap = <<>>
    /\ gs = <<>>

Next ==
    \/ LoadHook
    \/ MainExit
    \/ RunServer
    \/ HookHandler
    \/ ExecuteFilter
    \/ ExecuteLoop
    \/ ProcessEvent
    \/ RunCommand
    \/ UnitDone
    \/ ChildExit
    \/ DescendantExit
    \/ WaiterWait
    \/ WaiterSend
    \/ TimerFire
    \/ SelectDone
    \/ SelectTimeout
    \/ OrphanWait
    \/ OrphanSend

Spec == Init /\ [][Next]_vars

\* the steps of the goroutines of a dispatch and of the runtime's timer: the
\* scheduler does not leave all of them waiting while one of them can run.
\* The arrival of a request and the exit of a child or of a process it
\* started are not the program's to decide.
Progress ==
    \/ ExecuteFilter
    \/ ExecuteLoop
    \/ ProcessEvent
    \/ RunCommand
    \/ UnitDone
    \/ WaiterWait
    \/ WaiterSend
    \/ TimerFire
    \/ SelectDone
    \/ SelectTimeout
    \/ OrphanWait
    \/ OrphanSend

FairSpec == Spec /\ WF_vars(Progress)

\* ----------------------------------------------------- concurrent dispatches
\* what a goroutine of the model holds for one request
Goroutine(p, ev, c, u, pr, kk, sp) ==
    [pc |-> p, ev |-> ev, ci |-> c, u |-> u, prep |-> pr, k |-> kk, spawned |-> sp]

NotDispatched == Goroutine("handler", 0, 1, 0, NoPrep, 1, <<>>)

\* one cmd.Start(): the unit (0, or the position of the commit) and the
\* command it is, and what runCommand was given
Spawn(u, kk, args, env, dir) ==
    [u |-> u, k |-> kk, args |-> args, env |-> env, dir |-> dir]

\* e["commit"] = c on a map every dispatch shares
InjectShared(hp, addr, c) ==
    [a \in 1..Len(hp) |-> [hp[a] EXCEPT !.commit = c]]

\* e["commit"] = c (part_000:157): an assignment into the map e refers to
Inject(hp, addr, c) ==
    [hp EXCEPT ![addr].commit = c]

\* the ways runCommand ends: nil, the timeout error, or the panic of Kill
RunOutcomes == {"nil", "timeout", "panic"}

\* hookHandler for request g (part_001:14-58): NewEvent builds the Event, a
\* new map, and go hook.Execute(event) hands it to a new goroutine
ConcHandler(g) ==
    /\ Alive
    /\ gs[g].pc = "handler"
    /\ LET a == hookHandler(hooks[reqs[g].hook], reqs[g])
       IN  IF a.dispatch
             THEN /\ heap' = Append(heap, NewEvent(reqs[g].body).event)
                  /\ gs' = [gs EXCEPT ![g].pc = "filter", ![g].ev = Len(heap) + 1]
             ELSE /\ gs' = [gs EXCEPT ![g].pc = "refused"]
                  /\ UNCHANGED heap
    /\ UNCHANGED reqs
    /\ UNCHANGED mainVars
    /\ UNCHANGED reqVars
    /\ UNCHANGED exeVars

\* Execute of request g, lines 75-146
ConcFilter(g) ==
    /\ Alive
    /\ gs[g].pc = "filter"
    /\ LET hook == hooks[reqs[g].hook]
           v    == Filter(hook, heap[gs[g].ev])
       IN  gs' = [gs EXCEPT ![g].pc = IF ~v.accept THEN "rejected"
                                      ELSE IF hook.PerCommit THEN "loop"
                                      ELSE "unit"]
    /\ UNCHANGED <<reqs, heap>>
    /\ UNCHANGED mainVars
    /\ UNCHANGED reqVars
    /\ UNCHANGED exeVars

\* Execute of request g, lines 147-158: the next element of the commit list
ConcLoop(g) ==
    /\ Alive
    /\ gs[g].pc = "loop"
    /\ LET commits == Commits(heap[gs[g].ev])
           c       == gs[g].ci
       IN  IF c > Len(commits)
             THEN /\ gs' = [gs EXCEPT ![g].pc = "done"]
                  /\ UNCHANGED heap
           ELSE IF commits[c].t # "map"
             THEN /\ gs' = [gs EXCEPT ![g].ci = c + 1]
                  /\ UNCHANGED heap
           ELSE /\ heap' = Inject(heap, gs[g].ev, commits[c])
                /\ gs' = [gs EXCEPT ![g].pc = "unit", ![g].ci = c + 1, ![g].u = c]
    /\ UNCHANGED reqs
    /\ UNCHANGED mainVars
    /\ UNCHANGED reqVars
    /\ UNCHANGED exeVars

\* processEvent of request g, lines 180-216
ConcPrepare(g) ==
    /\ Alive
    /\ gs[g].pc = "unit"
    /\ LET hook == hooks[reqs[g].hook]
           p    == Prepare(hook, heap[gs[g].ev])
       IN  /\ gs' = [gs EXCEPT ![g].prep = p, ![g].k = 1,
                               ![g].pc = CASE p.outcome = "ok"    -> "run"
                                           [] p.outcome = "panic" -> "panicked"
                                           [] OTHER               -> AfterUnit(hook)]
           /\ mainPc' = IF p.outcome = "panic" THEN "crashed" ELSE mainPc
    /\ UNCHANGED <<reqs, heap>>
    /\ UNCHANGED <<config, hooks, loadIdx, failed>>
    /\ UNCHANGED reqVars
    /\ UNCHANGED exeVars

\* runCommand of request g, lines 245-276, from cmd.Start() to its return;
\* cmd, done and timer are its own
ConcRun(g) ==
    /\ Alive
    /\ gs[g].pc = "run"
    /\ gs[g].k <= Len(gs[g].prep.cmds)
    /\ \E out \in RunOutcomes :
         LET r    == gs[g]
             hook == hooks[reqs[g].hook]
             sp   == Append(r.spawned,
                            Spawn(r.u, r.k, r.prep.cmds[r.k], r.prep.env, r.prep.dir))
         IN  /\ gs' = [gs EXCEPT ![g].spawned = sp,
                                 ![g].k = IF out = "nil" THEN r.k + 1 ELSE r.k,
                                 ![g].pc = CASE out = "nil"     -> "run"
                                             [] out = "timeout" -> AfterUnit(hook)
                                             [] OTHER           -> "panicked"]
             /\ mainPc' = IF out = "panic" THEN "crashed" ELSE mainPc
    /\ UNCHANGED <<reqs, heap>>
    /\ UNCHANGED <<config, hooks, loadIdx, failed>>
    /\ UNCHANGED reqVars
    /\ UNCHANGED exeVars

\* processEvent of request g, lines 218-225, past the last command
ConcUnitDone(g) ==
    /\ Alive
    /\ gs[g].pc = "run"
    /\ gs[g].k > Len(gs[g].prep.cmds)
    /\ gs' = [gs EXCEPT ![g].pc = AfterUnit(hooks[reqs[g].hook])]
    /\ UNCHANGED <<reqs, heap>>
    /\ UNCHANGED mainVars
    /\ UNCHANGED reqVars
    /\ UNCHANGED exeVars

\* the hooks of the concurrent dispatches: one per commit, rendering the
\* commit everywhere, and one per event, rendering the ref and the commit
ConcHooks ==
    << NewHook(EmptyDir, <<CommitId>>, TRUE, <<>>, <<>>, <<S("main")>>,
               <<<<Echo, CommitId>>>>, 0, ""),
       NewHook(Json("commit"), <<>>, FALSE, <<>>, <<>>, <<>>,
               <<EchoRef, <<Echo, Json("commit")>>>>, 0, "s3cret") >>

ConcEvents ==
    << NewEventValue(Str("push"), Absent, Val("str", <<RefsHeads, "main">>),
                     CommitList(<<Map("c1"), Map("c2")>>)),
       NewEventValue(Str("push"), Absent, Val("str", <<RefsHeads, "dev">>),
                     CommitList(<<Map("c3")>>)),
       NewEventValue(Str("push"), Absent, Val("str", <<"main">>),
                     CommitList(<<Num("7"), Map("c4")>>)) >>

\* the requests there are: events for each hook, and one with a wrong token
ConcRequests ==
    [n \in 1..3 |-> Request(1, 100, "", TRUE, ConcEvents[n])]
    \o [n \in 1..2 |-> Request(2, 100, "s3cret", TRUE, ConcEvents[n])]
    \o << Request(2, 100, "wrong", TRUE, ConcEvents[1]) >>

\* the service is serving its compiled hooks, and requests arrive together
ConcInit ==
    /\ config = DefaultConfig
    /\ hooks = [i \in 1..Len(ConcHooks) |-> LoadOne(DefaultConfig, ConcHooks[i]).hook]
    /\ mainPc = "serving"
    /\ loadIdx = Len(ConcHooks) + 1
    /\ failed = FALSE
    /\ request = PlainRequest(PushEvent)
    /\ response = NoResponse
    /\ pc = "idle"
    /\ h = 1
    /\ e = NullEvent
    /\ ci = 1
    /\ log = <<>>
    /\ prep = NoPrep
    /\ k = 1
    /\ run = IdleRun
    /\ ret = "none"
    /\ orphans = [wait |-> 0, send |-> 0]
    /\ spawned = <<>>
    /\ results = <<>>
    /\ units = <<>>
    /\ \E pick \in [1..MaxDispatch -> 1..Len(ConcRequests)] :
         \* which request is called the first makes no difference
         /\ \A g \in 1..(MaxDispatch - 1) : pick[g] <= pick[g + 1]
         /\ reqs = [g \in 1..MaxDispatch |-> ConcRequests[pick[g]]]
    /\ heap = <<>>
    /\ gs = [g \in 1..MaxDispatch |-> NotDispatched]

ConcNext ==
    \E g \in 1..MaxDispatch :
        \/ ConcHandler(g)
        \/ ConcFilter(g)
        \/ ConcLoop(g)
        \/ ConcPrepare(g)
        \/ ConcRun(g)
        \/ ConcUnitDone(g)

ConcSpec == ConcInit /\ [][ConcNext]_vars

\* ================================================================== claims
\* the lines logged for the unit of work processEvent was last called for
UnitLog == SelectSeq(log, LAMBDA x : x.u = Len(units))

\* the event and prep are those of the same unit
UnitPrepared == units # <<>> /\ pc \notin {"idle", "filter", "unit"}

\* some command of the hook renders, for this event, to a program that is
\* not on the search path
HasUnresolvable(hook, ev) ==
    \E i \in 1..Len(hook.cmdTemplate) :
        LET r == processCommand(ev, hook.cmdTemplate[i])
        IN  /\ ~r.err
            /\ ~r.panic
            /\ Len(r.cmdList) > 0
            /\ r.cmdList[1] \notin OnPath

\* C1: no command of a unit is spawned before every command of the unit has
\* been rendered and resolved; a unit with a command whose program is not
\* found spawns nothing, and when resolution is what fails, the resolution
\* error is the one line logged for the unit.
C1_ResolveAllBeforeRunningAny ==
    /\ spawned # <<>> =>
          /\ ~HasUnresolvable(hooks[h], e)
          /\ prep.outcome = "ok"
          /\ Len(prep.cmds) = Len(hooks[h].Commands)
          /\ \A i \in 1..Len(hooks[h].Commands) :
                \E n \in 1..Len(prep.steps) : prep.steps[n] = Step("look", i, 0)
    /\ (UnitPrepared /\ HasUnresolvable(hooks[h], e)) =>
          /\ spawned = <<>>
          /\ prep.outcome \in {"resolve", "render", "panic"}
    /\ (UnitPrepared /\ prep.outcome = "resolve") =>
          UnitLog = <<LogEntry("error", "resolve", Len(units))>>

\* C1 witness: the last of two commands is the one that is not found, and
\* the unit is over with nothing spawned
C1_Witness ==
    /\ pc = "done"
    /\ Len(hooks[h].Commands) = 2
    /\ prep.outcome = "resolve"
    /\ Len(prep.cmds) = 1
    /\ spawned = <<>>

\* C2: a whole-event hook runs the unit once and spawns its commands in list
\* order; after a command that failed (timeout, or a child that did not end
\* in success), no later command of the unit is started.
C2_WholeEventInOrderStopAtFailure ==
    (pc \notin {"idle", "filter"} /\ ~hooks[h].PerCommit) =>
        /\ Len(units) <= 1
        /\ (pc = "done" => units = <<0>>)
        /\ \A i \in 1..Len(spawned) : spawned[i] = i
        /\ \A i \in 1..Len(results) : results[i] # "ok" => Len(spawned) <= i

\* C3: a command whose child ended without success (nonzero exit, signal, or
\* no start at all) is reported as failed: runCommand does not return nil
\* for it, no later command is started, and the failure is logged.
C3_UnsuccessfulChildIsFailure ==
    \A i \in 1..Len(results) :
        results[i] = "failed" =>
            /\ ~(pc = "run" /\ ret = "nil")
            /\ Len(spawned) <= i
            /\ \E n \in 1..Len(log) : log[n].sev = "error" /\ log[n].u = Len(units)

\* C4 as stated: a child that has not exited when the timer expires is
\* killed and reported as a timeout, never as success; a child that exited
\* before the timer expired is never reported as a timeout.
C4_OutcomeFollowsWhoWasFirst ==
    /\ ret = "timeout" => run.atExpiry = "running"
    /\ (pc = "run" /\ ret = "nil") => run.atExpiry # "running"

\* C4, amended: every started command gets exactly one outcome and is never
\* started again; the timeout error is returned only after the timer expired,
\* with the child dead (killed, or exited by itself) and the error logged;
\* nil is returned only after the waiter goroutine signalled that the child
\* is gone.  When the child's exit and the expiry have both happened before
\* select chooses, either outcome may be the one reported.
C4_ExactlyOneOutcome ==
    /\ \A i \in 1..Len(spawned) : spawned[i] = i
    /\ pc = "select" => Len(results) = Len(spawned) - 1
    /\ pc \notin {"select", "panicked"} => Len(results) = Len(spawned)
    /\ ret = "timeout" =>
          /\ run.timer = "fired"
          /\ run.child = "exited"
          /\ results[Len(results)] = "timeout"
          /\ \E n \in 1..Len(log) : log[n] = LogEntry("error", "timeout", Len(units))
    /\ (pc = "run" /\ ret = "nil") =>
          /\ run.waiter = "finished"
          /\ run.child \in {"exited", "failed"}
          /\ run.status # "killed"
          /\ results[Len(results)] \in {"ok", "failed"}

\* C4 witness: the child had exited by itself when the timer expired, the
\* waiter had even signalled it, and the timeout is what was reported
C4_Witness ==
    /\ ret = "timeout"
    /\ run.atExpiry = "exited"
    /\ run.done = 1
    /\ run.status = "ok"

\* the positions of the commit records (mappings) in the event's commit list
CommitRecords(ev) == { i \in 1..Len(Commits(ev)) : Commits(ev)[i].t = "map" }

\* C5: a per-commit hook calls the unit once per commit record, in list
\* order, with the record under "commit" during the unit; a unit that failed
\* (render, resolution, timeout, or a child that did not end in success) is
\* logged, and the next record is still attempted.
C5_PerCommitOncePerElement ==
    (pc \notin {"idle", "filter"} /\ hooks[h].PerCommit) =>
        /\ \A i \in 1..Len(units) :
              /\ units[i] \in CommitRecords(e)
              /\ \A j \in 1..Len(units) : i < j => units[i] < units[j]
        /\ pc = "done" => { units[i] : i \in 1..Len(units) } = CommitRecords(e)
        /\ pc \in {"unit", "run", "select"} => e.commit = Commits(e)[ci - 1]
        /\ (pc \in {"loop", "done"} /\ units # <<>>
              /\ (prep.outcome # "ok" \/ \E i \in 1..Len(results) : results[i] # "ok")) =>
              \E n \in 1..Len(log) : log[n].sev = "error" /\ log[n].u = Len(units)

\* the members of an allow-list
Members(list) == { list[i] : i \in 1..Len(list) }

\* a ref with one leading refs/heads/ taken off
WithoutOnePrefix(ref) == IF ref # <<>> /\ Head(ref) = RefsHeads THEN Tail(ref) ELSE ref

\* an allow-list accepts a field: the list is empty, or the field is a string
\* that is one of its members
ListAccepts(list, val, text) ==
    list = <<>> \/ (val.t = "str" /\ text \in Members(list))

\* every non-empty allow-list of the hook accepts the event
Accepts(hook, ev) ==
    /\ ListAccepts(hook.AllowEvent, ev.type, ev.type.v)
    /\ ListAccepts(hook.AllowPipelineStatus, ev.status, ev.status.v)
    /\ ListAccepts(hook.AllowBranches, ev.ref, WithoutOnePrefix(ev.ref.v))

Dispatched == pc \notin {"idle", "filter"}

BranchCase(list, ref, accepted) ==
    ( /\ Dispatched
      /\ hooks[h].AllowEvent = <<>>
      /\ hooks[h].AllowPipelineStatus = <<>>
      /\ hooks[h].AllowBranches = list
      /\ e.ref = Val("str", ref) ) => ((pc # "rejected") = accepted)

\* C7: one leading refs/heads/ is stripped from the ref, and the result is
\* compared by equality with each AllowBranches entry, which is not stripped.
C7_BranchStripsOnePrefix ==
    /\ BranchCase(<<S("main")>>, <<RefsHeads, "main">>, TRUE)
    /\ BranchCase(<<S("main")>>, <<"main">>, TRUE)
    /\ BranchCase(<<S("feature")>>, <<RefsHeads, "feature", "/x">>, FALSE)
    /\ BranchCase(<<S("feature")>>, <<"feature">>, TRUE)
    /\ BranchCase(<<S("main")>>, <<RefsHeads, RefsHeads, "main">>, FALSE)
    /\ BranchCase(<<S("main"), <<RefsHeads, "dev">>>>, <<RefsHeads, "dev">>, FALSE)
    /\ BranchCase(<<S("main"), <<RefsHeads, "dev">>>>, <<RefsHeads, RefsHeads, "dev">>, TRUE)
    /\ (Dispatched /\ hooks[h].AllowBranches # <<>> /\ pc # "rejected") =>
          /\ e.ref.t = "str"
          /\ WithoutOnePrefix(e.ref.v) \in Members(hooks[h].AllowBranches)
    /\ (Dispatched /\ log # <<>> /\ log[1].what = "ignored branch") =>
          WithoutOnePrefix(e.ref.v) \notin Members(hooks[h].AllowBranches)

\* C7 witness: refs/heads/refs/heads/main against the list "main": rejected
C7_Witness ==
    /\ pc = "rejected"
    /\ hooks[h].AllowBranches = <<S("main")>>
    /\ e.ref = Val("str", <<RefsHeads, RefsHeads, "main">>)
    /\ log = <<LogEntry("info", "ignored branch", 0)>>

\* every template source of the hook has valid syntax
SourcesValid(hook) ==
    /\ hook.Dir.k # "bad"
    /\ \A i \in 1..Len(hook.Env) : hook.Env[i].k # "bad"
    /\ \A i \in 1..Len(hook.Commands) :
          \A j \in 1..Len(hook.Commands[i]) : hook.Commands[i][j].k # "bad"

\* the compiled state has the shape of the sources, with no nil template
FullyCompiled(hook) ==
    /\ Len(hook.cmdTemplate) = Len(hook.Commands)
    /\ \A i \in 1..Len(hook.cmdTemplate) :
          /\ Len(hook.cmdTemplate[i]) = Len(hook.Commands[i])
          /\ \A j \in 1..Len(hook.cmdTemplate[i]) : hook.cmdTemplate[i][j] # NilT
    /\ Len(hook.envTemplate) = Len(hook.Env)
    /\ \A i \in 1..Len(hook.envTemplate) : hook.envTemplate[i] # NilT
    /\ (hook.dirTemplate # NilT) <=> (hook.Dir # EmptyDir)

\* no compiled template is stored in the hook
NothingCompiled(hook) ==
    /\ hook.cmdTemplate = <<>>
    /\ hook.envTemplate = <<>>
    /\ hook.dirTemplate = NilT

\* the hooks main's loop has called CreateTemplates on
Loaded == 1..(loadIdx - 1)

\* C8: after CreateTemplates the hook is either fully compiled (it returned
\* nil) or, when a directory, environment or argument source is invalid (it
\* returned an error), holds no compiled template at all.
C8_CompiledAllOrNothing ==
    /\ failed <=> \E i \in Loaded : ~SourcesValid(hooks[i])
    /\ \A i \in Loaded :
          IF SourcesValid(hooks[i])
            THEN FullyCompiled(hooks[i])
            ELSE NothingCompiled(hooks[i])

\* C9: the service serves only after CreateTemplates was called on every
\* hook and returned nil each time; with a hook that fails to compile the
\* process exits without serving, so Execute never runs on a hook that did
\* not compile or was not compiled yet.
C9_ServeOnlyAfterAllCompiled ==
    /\ mainPc \in {"serving", "crashed"} =>
          /\ loadIdx = Len(hooks) + 1
          /\ ~failed
          /\ \A i \in 1..Len(hooks) : SourcesValid(hooks[i]) /\ FullyCompiled(hooks[i])
    /\ (pc # "idle" \/ response # NoResponse) =>
          /\ mainPc \in {"serving", "crashed"}
          /\ FullyCompiled(hooks[h])
    /\ (\E i \in 1..Len(hooks) : ~SourcesValid(hooks[i])) =>
          /\ mainPc \in {"load", "exited"}
          /\ (loadIdx > Len(hooks) => failed)

\* C9 witness: two hooks, both compiled, and Execute has run for the second
C9_Witness ==
    /\ mainPc = "serving"
    /\ Len(hooks) = 2
    /\ h = 2
    /\ pc = "done"

Payload == NewEvent(request.body).event

\* C12: the filters leave the event as it was decoded: after an accepted
\* filter its type, status and ref are the payload's, and an argument
\* {{.ref}} renders the raw ref, refs/heads/ included, whatever the branch
\* allow-list compared.
C12_FilterLeavesEventRaw ==
    /\ Dispatched =>
          /\ e.type = Payload.type
          /\ e.status = Payload.status
          /\ e.ref = Payload.ref
          /\ e.commits = Payload.commits
    /\ (UnitPrepared /\ prep.outcome = "ok") =>
          \A i \in 1..Len(prep.cmds) :
             \A j \in 2..Len(prep.cmds[i]) :
                hooks[h].Commands[i][j] = Field("ref") =>
                    prep.cmds[i][j] = TextOf(Payload.ref)

\* C12 witness: AllowBranches is "main", the ref is refs/heads/main, the
\* event was accepted, and echo {{.ref}} was rendered as refs/heads/main
C12_Witness ==
    /\ pc = "done"
    /\ hooks[h].AllowBranches = <<S("main")>>
    /\ Payload.ref = Val("str", <<RefsHeads, "main">>)
    /\ hooks[h].Commands = <<EchoRef>>
    /\ prep.cmds = <<<<S("/bin/") \o S("echo"), <<RefsHeads, "main">>>>>>
    /\ spawned = <<1>>

\* the line the first failing predicate logs, the predicates taken in the
\* order event type, pipeline status, branch
FirstRejection(hook, ev) ==
    IF hook.AllowEvent # <<>> /\ ev.type.t # "str"
      THEN LogEntry("warning", "non-string type", 0)
    ELSE IF hook.AllowEvent # <<>> /\ ev.type.v \notin Members(hook.AllowEvent)
      THEN LogEntry("warning", "disallowed event type", 0)
    ELSE IF hook.AllowPipelineStatus # <<>> /\ ev.status.t # "str"
      THEN LogEntry("warning", "non-string status", 0)
    ELSE IF hook.AllowPipelineStatus # <<>>
            /\ ev.status.v \notin Members(hook.AllowPipelineStatus)
      THEN LogEntry("info", "incorrect pipeline status", 0)
    ELSE IF hook.AllowBranches # <<>> /\ ev.ref.t # "str"
      THEN LogEntry("warning", "non-string ref", 0)
    ELSE LogEntry("info", "ignored branch", 0)

\* the lines only a filter logs
FilterLines == { x \in { log[n] : n \in 1..Len(log) } : x.sev \in {"warning", "info"} }

\* C13: the predicates are evaluated in the order event type, pipeline
\* status, branch; a rejected event has exactly one log line, that of the
\* first failing predicate (warning for a non-string field and for a
\* disallowed type, informational for a disallowed status or branch); an
\* accepted event has no filter line.
C13_FirstFailingPredicateLogsOnce ==
    /\ pc = "rejected" => log = <<FirstRejection(hooks[h], Payload)>>
    /\ (Dispatched /\ pc # "rejected") => FilterLines = {}

\* C13 witness: the type is disallowed, the status is not a string and the
\* ref is absent, all three lists are set: only the type's warning is logged
C13_Witness ==
    /\ pc = "rejected"
    /\ hooks[h].AllowEvent # <<>>
    /\ hooks[h].AllowPipelineStatus # <<>>
    /\ hooks[h].AllowBranches # <<>>
    /\ Payload.type = Str("merge")
    /\ Payload.status = Num("7")
    /\ Payload.ref = Absent
    /\ log = <<LogEntry("warning", "disallowed event type", 0)>>

\* the template a rendering step of a unit executes
StepTemplate(hook, st) ==
    CASE st.s = "dir" -> hook.dirTemplate
      [] st.s = "env" -> hook.envTemplate[st.i]
      [] OTHER        -> hook.cmdTemplate[st.i][st.j]

\* the rendering steps a unit of the hook can take
RenderSteps(hook) ==
    (IF hook.Dir # EmptyDir THEN {Step("dir", 0, 0)} ELSE {})
    \cup { Step("env", i, 0) : i \in 1..Len(hook.Env) }
    \cup UNION { { Step("arg", i, j) : j \in 1..Len(hook.Commands[i]) } :
                 i \in 1..Len(hook.Commands) }

StageRank(st) == CASE st.s = "dir" -> 0 [] st.s = "env" -> 1 [] OTHER -> 2

\* the order of rendering: directory, environment in list order, commands in
\* outer list order with their arguments in inner order
RendersBefore(a, b) ==
    \/ StageRank(a) < StageRank(b)
    \/ StageRank(a) = StageRank(b) /\ a.i < b.i
    \/ StageRank(a) = StageRank(b) /\ a.i = b.i /\ a.j < b.j

\* the rendering steps of the unit processEvent was last called for
Rendered == SelectSeq(prep.steps, LAMBDA st : st.s # "look")

StepFails(st) == Render(StepTemplate(hooks[h], st), e).err

\* C14: a unit renders its directory, then its environment entries in list
\* order, then its commands in list order, argument by argument, skipping
\* nothing; the first rendering that fails is the last one of the unit, its
\* error is the one line logged for the unit, and nothing is spawned; what
\* is spawned was rendered completely.
C14_RenderInOrderFirstErrorReported ==
    UnitPrepared =>
        LET hook  == hooks[h]
            R     == Rendered
            done  == { R[n] : n \in 1..Len(R) }
            all   == RenderSteps(hook)
            bad   == { st \in done : StepFails(st) }
        IN  /\ done \subseteq all
            /\ \A n \in 1..Len(R) : \A m \in (n + 1)..Len(R) : RendersBefore(R[n], R[m])
            /\ \A st \in all \ done : \A d \in done : ~RendersBefore(st, d)
            /\ bad # {} =>
                  /\ bad = {R[Len(R)]}
                  /\ prep.steps[Len(prep.steps)] = R[Len(R)]
                  /\ prep.outcome = "render"
            /\ prep.outcome = "render" =>
                  /\ bad # {}
                  /\ spawned = <<>>
                  /\ UnitLog = <<LogEntry("error", "render", Len(units))>>
            /\ spawned # <<>> =>
                  /\ done = all
                  /\ bad = {}
                  /\ prep.dir = IF hook.Dir # EmptyDir
                                  THEN Render(hook.dirTemplate, e).out ELSE Empty
                  /\ prep.env = [i \in 1..Len(hook.Env) |->
                                    Render(hook.envTemplate[i], e).out]
                  /\ \A i \in 1..Len(prep.cmds) :
                        /\ Len(prep.cmds[i]) = Len(hook.Commands[i])
                        /\ \A j \in 2..Len(prep.cmds[i]) :
                              prep.cmds[i][j] = Render(hook.cmdTemplate[i][j], e).out

\* C14 witness: the directory and the first environment entry rendered, the
\* second entry failed, no command was rendered and none was spawned
C14_Witness ==
    /\ pc = "done"
    /\ prep.outcome = "render"
    /\ prep.steps = <<Step("dir", 0, 0), Step("env", 1, 0), Step("env", 2, 0)>>
    /\ Len(hooks[h].Commands) = 2
    /\ spawned = <<>>
    /\ log = <<LogEntry("error", "render", 1)>>

\* C17: once serving has begun no step writes a hook: the allow-lists, the
\* commands, the timeout, the secret and the compiled templates of every
\* hook, and the configuration, are the same after any step of hookHandler,
\* Execute, processEvent, processCommand, runCommand and their goroutines.
C17_HooksReadOnlyWhileServing ==
    [][(mainPc \in {"serving", "crashed"}) => (hooks' = hooks /\ config' = config)]_vars

\* C17 witness: a per-commit hook has been through two units while serving,
\* one of them ended by the timeout
C17_Witness ==
    /\ mainPc = "serving"
    /\ pc = "done"
    /\ hooks[h].PerCommit
    /\ Len(units) = 2
    /\ \E n \in 1..Len(log) : log[n].what = "timeout"

\* C18: the timeout branch of runCommand calls Kill only on a child that
\* was started: no run ends in Kill on the absent process handle of a child
\* whose start failed.
C18_KillOnlyStartedChild ==
    ~( /\ pc = "panicked"
       /\ prep.outcome = "ok"
       /\ run.timer = "fired"
       /\ run.child = "failed" )

\* C20: every command that reaches path resolution has a program name: no
\* unit of a hook that CreateTemplates accepted ends abnormally on the first
\* element of an empty argument list.
C20_ResolvedCommandHasProgram ==
    (Dispatched /\ FullyCompiled(hooks[h])) =>
        /\ prep.outcome # "panic"
        /\ \A i \in 1..Len(prep.cmds) : Len(prep.cmds[i]) >= 1

\* C16: when runCommand returns the timeout error, the whole process tree of
\* the command is dead: neither the child nor a process it started is still
\* running.
C16_TimeoutKillsWholeTree ==
    ret = "timeout" =>
        /\ run.child # "running"
        /\ run.tree # "running"

\* the waiter goroutines that have not returned
WaitersPending ==
    orphans.wait + orphans.send + (IF run.waiter \in {"waiting", "send"} THEN 1 ELSE 0)

\* C19: the waiter goroutine of every command terminates: its send on done
\* never finds the channel full, whether runCommand takes the value or has
\* already returned on the timeout, and in the end no waiter is left (short
\* of the end of the whole process).
C19_WaiterAlwaysTerminates ==
    /\ [](run.waiter = "send" => SendReady(run.done))
    /\ [](orphans.send > 0 => SendReady(0))
    /\ <>[](mainPc # "serving" \/ WaitersPending = 0)

\* C19 witness: the child was running at expiry, runCommand returned on the
\* timeout, and the waiter it left behind has since sent and returned
C19_Witness ==
    /\ mainPc = "serving"
    /\ pc = "done"
    /\ ret = "timeout"
    /\ run.atExpiry = "running"
    /\ run.waiter = "detached"
    /\ orphans = [wait |-> 0, send |-> 0]

\* C15: every Execute reaches a terminal state (rejected, or done with its
\* units prepared or failed), whether or not the children exit by themselves.
C15_ExecuteTerminates ==
    (pc = "filter") ~> (pc \in {"rejected", "done"})

\* the Event request g carried, and the Event its unit u works on when only
\* this request is handled: the payload, with the commit of the unit on it
OwnPayload(g) == NewEvent(reqs[g].body).event

OwnEvent(g, u) ==
    IF u = 0 THEN OwnPayload(g)
    ELSE [OwnPayload(g) EXCEPT !.commit = Commits(OwnPayload(g))[u]]

\* sp is a spawn the invocation for request g makes when it runs alone
SpawnedAlone(g, sp) ==
    LET hook == hooks[reqs[g].hook]
        p    == Prepare(hook, OwnEvent(g, sp.u))
    IN  /\ hookHandler(hook, reqs[g]).dispatch
        /\ Filter(hook, OwnPayload(g)).accept
        /\ IF hook.PerCommit THEN sp.u \in CommitRecords(OwnPayload(g)) ELSE sp.u = 0
        /\ p.outcome = "ok"
        /\ sp.k \in 1..Len(p.cmds)
        /\ sp.args = p.cmds[sp.k]
        /\ sp.env = p.env
        /\ sp.dir = p.dir

====
